---- MODULE Spec2Model ----
(***************************************************************************)
(* A model of the SHL assessment recommendation engine: the TF-IDF index   *)
(* held by SHLRecommender (recommender.py), the catalog loading path       *)
(* (preprocessing.py), the /recommend service handler (app.py) and the     *)
(* evaluation harness (recommender.py, evaluate.py).                       *)
(*                                                                         *)
(* Text is modelled at the granularity of whitespace-separated lexemes: a  *)
(* text is a sequence of lexemes, a lexeme is a word (possibly carrying    *)
(* upper-case letters) or a run of punctuation.  Numbers are fixed-point:  *)
(* idf weights carry two decimals, similarity scores three.                *)
(***************************************************************************)
EXTENDS Integers, Sequences, FiniteSets, TLC

\* ---------------------------------------------------------------- bounds
\* Longest query text, in lexemes.
MaxQueryLen == 1
\* Longest test-query list handed to evaluate.
MaxTests == 2
\* Largest k handed to evaluate.
MaxEvalK == 2
\* Largest k of the requests replayed against a fixed index.
MaxRepeatK == 2
\* The largest k the evaluation scripts are run with (more than the catalog holds).
MaxScriptK == 4
\* Pages of the first and of the second catalog table (32 and 12 on the site).
Table1Pages == 2
Table2Pages == 1
\* Most product rows on one catalog page (12 on the site).
MaxRowsPerPage == 2

\* ------------------------------------------------------ program constants
\* QueryInput.num_recommendations: Field(5, ge=1, le=10)
MinK == 1
MaxK == 10
\* TfidfVectorizer(ngram_range=(1, 3))
MaxNgram == 3
\* TfidfVectorizer(max_features=5000)
MaxFeatures == 5000
\* len(tables) in scrape_catalog
NumTables == 2
\* save_data() runs after every page whose index is a multiple of this
SaveEvery == 5
\* HTTPException(status_code=503), the 200 of a handler that returns, and the
\* 500 FastAPI answers when a handler raises.
ServiceUnavailable == "503"
Ok == "200"
InternalServerError == "500"

\* ------------------------------------------------------------------ text
\* A text cell of the catalog table that holds no value (a key absent from a
\* record, a JSON null): pandas' NaN / None.  It is no string.
NaN == <<"NaN">>

\* str.lower() on one lexeme.
Lower(w) ==
    CASE w = "Sales" -> "sales"
      [] w = "Manager" -> "manager"
      [] OTHER -> w

\* A lexeme made only of characters outside [\w\s\-]: re.sub(r'[^\w\s\-]', ' ', .)
\* turns it into spaces, which the whitespace collapse and strip then remove.
IsPunct(w) == w \in {"&", "!", ","}

\* sklearn's ENGLISH_STOP_WORDS, as far as the model's lexemes go.
StopWords == {"the", "and"}

\* text.lower()
LowerAll(text) == [i \in DOMAIN text |-> Lower(text[i])]

NotPunct(w) == ~IsPunct(w)

\* The shared body of clean_text and preprocess_query: lowercase, punctuation
\* to spaces, whitespace runs collapsed, stripped.
Normalize(text) == SelectSeq(LowerAll(text), NotPunct)

\* preprocessing.clean_text: a non-string yields the empty string.
clean_text(text) == IF text = NaN THEN <<>> ELSE Normalize(text)

\* isinstance(x, str)
IsStr(x) == x # NaN

\* A slip of the query path: the lowercasing is left to the vectorizer.
PreprocessQueryKeepingCase(query) == SelectSeq(query, NotPunct)

\* SHLRecommender.preprocess_query, of a string: query.lower() raises
\* AttributeError on anything else (see recommend).
preprocess_query(query) == Normalize(query)

NotStop(w) == w \notin StopWords

\* TfidfVectorizer's analyzer up to the n-grams: lowercase, tokens matching
\* \b\w\w+\b (punctuation is no token), stop words removed.
Tokens(text) == SelectSeq(SelectSeq(LowerAll(text), NotPunct), NotStop)

\* The n-grams of lengths 1..MaxNgram of a token sequence, as <<start, length>>.
NgramSlots(toks) ==
    {sl \in (1..Len(toks)) \X (1..MaxNgram) : sl[1] + sl[2] - 1 <= Len(toks)}

NgramAt(toks, sl) == SubSeq(toks, sl[1], sl[1] + sl[2] - 1)

\* The distinct terms of a text.
Terms(text) ==
    LET toks == Tokens(text) IN {NgramAt(toks, sl) : sl \in NgramSlots(toks)}

\* Raw count of a term in a text.
TermCount(term, text) ==
    LET toks == Tokens(text) IN
    Cardinality({sl \in NgramSlots(toks) : NgramAt(toks, sl) = term})

\* ------------------------------------------------------------ arithmetic
RECURSIVE SumOver(_, _)
SumOver(S, f) ==
    IF S = {} THEN 0
    ELSE LET x == CHOOSE y \in S : TRUE IN f[x] + SumOver(S \ {x}, f)

RECURSIVE ISqrtIter(_, _, _)
ISqrtIter(n, lo, hi) ==
    IF lo >= hi THEN lo
    ELSE LET mid == (lo + hi + 1) \div 2 IN
         IF mid * mid <= n THEN ISqrtIter(n, mid, hi) ELSE ISqrtIter(n, lo, mid - 1)

\* floor(sqrt(n))
ISqrt(n) == ISqrtIter(n, 0, IF n < 46340 THEN n ELSE 46340)

\* 100 * ln(n), n = 1..10
Ln100 == <<0, 69, 110, 139, 161, 179, 195, 208, 220, 230>>

Min(a, b) == IF a <= b THEN a ELSE b
Max(a, b) == IF a >= b THEN a ELSE b


\* --------------------------------------------------------- catalog table
\* An attribute is None or refers to an object: the empty sequence, or the
\* one-element sequence of the object.
None == <<>>
Some(obj) == <<obj>>
Get(ref) == ref[1]

\* The fields a catalog record may carry: description is a text, test_types a
\* list of one-word types, duration a number written as a lexeme.  A key a
\* record lacks is NaN.
Fields == {"id", "name", "description", "test_types", "duration"}
TextFields == {"description", "test_types"}
OptionalFields == TextFields \cup {"duration"}

\* A record without the duration key.
Rec(id, name, description, test_types) ==
    [id |-> id, name |-> name, description |-> description, test_types |-> test_types,
     duration |-> NaN]

\* The record with a duration key.
Timed(rec, duration) == [rec EXCEPT !.duration = duration]

\* pd.DataFrame(records): one row per record, one column per key that occurs
\* in a record; a key a record lacks is NaN in its row.
DataFrame(records) ==
    [columns |-> (Fields \ OptionalFields) \cup
                 {f \in OptionalFields : \E i \in DOMAIN records : records[i][f] # NaN},
     rows |-> records]

\* pd.DataFrame(): no columns, no rows.
EmptyFrame == [columns |-> {}, rows |-> <<>>]

IsEmptyFrame(df) == df.columns = {} \/ df.rows = <<>>

\* A catalog file: absent (open() raises FileNotFoundError), not JSON
\* (json.load raises JSONDecodeError), or a JSON list of records.
MissingFile == [content |-> "missing", records |-> <<>>]
InvalidFile == [content |-> "invalid", records |-> <<>>]
JsonFile(records) == [content |-> "records", records |-> records]

\* preprocessing.load_data: every failure is printed and an empty table returned.
load_data(file) ==
    IF file.content = "records" /\ file.records # <<>>
    THEN DataFrame(file.records)
    ELSE EmptyFrame

\* ', '.join(x) of a list of types: a comma between neighbours.
RECURSIVE Join(_)
Join(x) == IF Len(x) <= 1 THEN x ELSE <<Head(x), ",">> \o Join(Tail(x))

\* ', '.join(x) if isinstance(x, list) else x
JoinTypes(x) == IF x = NaN THEN NaN ELSE Join(x)

\* preprocessing.preprocess_data: the description column is created when
\* absent and cleaned; test_types_str is added when test_types is a column.
preprocess_data(df) ==
    IF IsEmptyFrame(df) THEN df
    ELSE [columns |-> df.columns \cup {"description"}
                        \cup (IF "test_types" \in df.columns THEN {"test_types_str"} ELSE {}),
          rows |-> [i \in DOMAIN df.rows |->
                      [f \in Fields \cup {"test_types_str"} |->
                          CASE f = "description" ->
                                 (IF "description" \in df.columns
                                  THEN clean_text(df.rows[i].description)
                                  ELSE <<>>)
                            [] f = "test_types_str" ->
                                 (IF "test_types" \in df.columns
                                  THEN JoinTypes(df.rows[i].test_types)
                                  ELSE NaN)
                            [] OTHER -> df.rows[i][f]]]]

\* description + ' ' + test_types_str, element-wise: NaN where either is NaN.
Concat(a, b) == IF a = NaN \/ b = NaN THEN NaN ELSE a \o b

\* preprocessing.get_features_for_recommendation
get_features_for_recommendation(df) ==
    IF IsEmptyFrame(df) THEN df
    ELSE IF "description" \in df.columns THEN
        [columns |-> df.columns \cup {"combined_features"},
         rows |-> [i \in DOMAIN df.rows |->
                     [f \in DOMAIN df.rows[i] \cup {"combined_features"} |->
                         IF f = "combined_features"
                         THEN (IF "test_types_str" \in df.columns
                               THEN Concat(df.rows[i].description, df.rows[i].test_types_str)
                               ELSE df.rows[i].description)
                         ELSE df.rows[i][f]]]]
    ELSE df

\* self.data_df[feature_column].fillna(''): the texts the index is fitted on.
FeatureTexts(df) ==
    LET col == IF "combined_features" \in df.columns THEN "combined_features"
               ELSE "description" IN
    [i \in DOMAIN df.rows |->
        IF df.rows[i][col] = NaN THEN <<>> ELSE df.rows[i][col]]

HasFeatureColumn(df) ==
    "combined_features" \in df.columns \/ "description" \in df.columns

\* ----------------------------------------------------------- TF-IDF fit
\* Total count of a term over the corpus.
CorpusCount(term, texts) ==
    SumOver(DOMAIN texts, [i \in DOMAIN texts |-> TermCount(term, texts[i])])

\* max_features: the MaxFeatures terms of highest corpus count are kept.
LimitFeatures(terms, texts) ==
    IF Cardinality(terms) <= MaxFeatures THEN terms
    ELSE CHOOSE V \in SUBSET terms :
           /\ Cardinality(V) = MaxFeatures
           /\ \A t \in V, u \in terms \ V : CorpusCount(t, texts) >= CorpusCount(u, texts)

\* The terms of the corpus, limited: fit_transform's vocabulary_.
Vocabulary(texts) ==
    LimitFeatures(UNION {Terms(texts[i]) : i \in DOMAIN texts}, texts)

DocFreq(term, texts) == Cardinality({i \in DOMAIN texts : TermCount(term, texts[i]) > 0})

\* smooth idf: ln((1 + N) / (1 + df)) + 1, two decimals.
Idf(n, df) == Ln100[1 + n] - Ln100[1 + df] + 100

\* The fitted vectorizer: vocabulary V and the idf weight of each term.
FitVectorizer(texts, V) ==
    [fitted |-> TRUE, vocabulary |-> V,
     idf |-> [t \in V |-> Idf(Len(texts), DocFreq(t, texts))]]

\* transform: raw count times idf per vocabulary term (the row norm is
\* divided out in CosineSimilarity); terms outside the vocabulary count nothing.
Transform(vec, text) ==
    [t \in vec.vocabulary |-> TermCount(t, text) * vec.idf[t]]

\* The document matrix: one row per text.
FitMatrix(texts, vec) == [i \in DOMAIN texts |-> Transform(vec, texts[i])]

Dot(u, v) ==
    LET D == DOMAIN u \cap DOMAIN v IN SumOver(D, [t \in D |-> u[t] * v[t]])

Norm(u) == ISqrt(Dot(u, u))

\* dot / (|q| |row|), three decimals; a zero row has similarity 0 with everything.
Cosine(dot, nq, nrow) ==
    IF nq = 0 \/ nrow = 0 THEN 0 ELSE (dot * 1000) \div (nq * nrow)

\* sklearn cosine_similarity of the query row with one matrix row.
CosineSimilarity(q, row) == Cosine(Dot(q, row), Norm(q), Norm(row))

\* ------------------------------------------------------- SHLRecommender
\* TfidfVectorizer(...) before fit_transform has run on it.
UnfittedVectorizer == [fitted |-> FALSE, vocabulary |-> {}, idf |-> <<>>]

\* SHLRecommender.__init__ before any load.
NewRecommender ==
    [data_df |-> None, tfidf_vectorizer |-> None, tfidf_matrix |-> None]

\* A slip of the refit: a vectorizer that is already fitted is kept and the
\* new texts are only transformed with it.
FitOnReusingVectorizer(r, df, texts, V) ==
    IF V = {} THEN
        [obj |-> [r EXCEPT !.data_df = Some(df),
                           !.tfidf_vectorizer = Some(UnfittedVectorizer)],
         raised |-> TRUE]
    ELSE IF r.tfidf_vectorizer # None /\ Get(r.tfidf_vectorizer).fitted THEN
        [obj |-> [data_df |-> Some(df),
                  tfidf_vectorizer |-> r.tfidf_vectorizer,
                  tfidf_matrix |-> Some(FitMatrix(texts, Get(r.tfidf_vectorizer)))],
         raised |-> FALSE]
    ELSE
        [obj |-> [data_df |-> Some(df),
                  tfidf_vectorizer |-> Some(FitVectorizer(texts, V)),
                  tfidf_matrix |-> Some(FitMatrix(texts, FitVectorizer(texts, V)))],
         raised |-> FALSE]

\* load_dataframe from the vectorizer construction on: fit_transform raises
\* ValueError("empty vocabulary") when no term is left, after data_df and the
\* new vectorizer were assigned and before the matrix is.
FitOn(r, df, texts, V) ==
    IF V = {} THEN
        [obj |-> [r EXCEPT !.data_df = Some(df),
                           !.tfidf_vectorizer = Some(UnfittedVectorizer)],
         raised |-> TRUE]
    ELSE
        [obj |-> [data_df |-> Some(df),
                  tfidf_vectorizer |-> Some(FitVectorizer(texts, V)),
                  tfidf_matrix |-> Some(FitMatrix(texts, FitVectorizer(texts, V)))],
         raised |-> FALSE]

FitTexts(r, df, texts) == FitOn(r, df, texts, Vocabulary(texts))

\* SHLRecommender.load_dataframe on object r: the object afterwards and
\* whether fit_transform raised.  data_df is assigned first; without a text
\* column nothing else is.
load_dataframe(r, df) ==
    IF HasFeatureColumn(df) THEN FitTexts(r, df, FeatureTexts(df))
    ELSE [obj |-> [r EXCEPT !.data_df = Some(df)], raised |-> FALSE]

\* if not raw_df.empty: preprocess, add the features, load_dataframe
LoadFrame(r, raw_df) ==
    IF ~IsEmptyFrame(raw_df)
    THEN load_dataframe(r, get_features_for_recommendation(preprocess_data(raw_df)))
    ELSE [obj |-> r, raised |-> FALSE]

\* SHLRecommender.load_data on object r: nothing is loaded from an empty table.
LoadDataOn(r, file) == LoadFrame(r, load_data(file))

\* SHLRecommender(data_file=file)
Construct(file) == LoadDataOn(NewRecommender, file)

\* The guard of recommend: all three attributes are set.
IsLoaded(r) ==
    r.data_df # None /\ r.tfidf_vectorizer # None /\ r.tfidf_matrix # None

\* ndarray.argsort(): the indices in ascending order of value.  The default
\* kind is not a stable sort, so the order of equal values belongs to the
\* build: ties[i] is the rank the build gives index i among equal values.
ArgsortBefore(a, ties, i, j) ==
    a[i] < a[j] \/ (a[i] = a[j] /\ ties[i] < ties[j])

Argsort(a, ties) ==
    LET pos(i) == 1 + Cardinality({j \in DOMAIN a : ArgsortBefore(a, ties, j, i)}) IN
    [p \in DOMAIN a |-> CHOOSE i \in DOMAIN a : pos(i) = p]

\* seq[-k:]
SliceLast(seq, k) ==
    SubSeq(seq, (IF k > 0 THEN Max(Len(seq) - k, 0) ELSE Min(0 - k, Len(seq))) + 1, Len(seq))

\* seq[::-1]
Reverse(seq) == [i \in DOMAIN seq |-> seq[Len(seq) + 1 - i]]

\* The query row: transform([preprocess_query(query)])
QueryVector(vec, query) == Transform(vec, preprocess_query(query))

\* cosine_similarity(query_vector, self.tfidf_matrix).flatten()
CosineSimilarities(query_vector, matrix) ==
    [i \in DOMAIN matrix |-> CosineSimilarity(query_vector, matrix[i])]

Similarities(r, query) ==
    CosineSimilarities(QueryVector(Get(r.tfidf_vectorizer), query), Get(r.tfidf_matrix))

\* A slip of the slice: argsort()[:num_recommendations][::-1], the lowest
\* similarities instead of the highest.
TopIndicesFromTheFront(sims, k, ties) ==
    Reverse(SubSeq(Argsort(sims, ties), 1, Min(k, Len(sims))))

\* A slip of the order: the reversal [::-1] is left out, the lowest of the
\* top similarities comes first.
TopIndicesAscending(sims, k, ties) == SliceLast(Argsort(sims, ties), k)

\* cosine_similarities.argsort()[-num_recommendations:][::-1]
TopIndices(sims, k, ties) == Reverse(SliceLast(Argsort(sims, ties), k))

\* Series.get(key, default) on row idx: the default only when the table has
\* no such column; the value of the row, NaN included, otherwise.
SeriesGet(df, idx, key, default) ==
    IF key \in df.columns THEN df.rows[idx][key] ELSE default

\* One entry of the list recommend returns.  row is the position of the
\* catalog row the entry was built from (ghost: the dict does not carry it).
Recommendation(df, idx, score) ==
    [id |-> df.rows[idx].id, name |-> df.rows[idx].name,
     test_types |-> SeriesGet(df, idx, "test_types", <<>>),
     duration |-> SeriesGet(df, idx, "duration", <<"0">>),
     similarity_score |-> score, row |-> idx]

\* A slip of the comparison: if cosine_similarities[idx] >= 0
RelevantOrZero(sims, idx) == sims[idx] >= 0

\* if cosine_similarities[idx] > 0
Relevant(sims, idx) == sims[idx] > 0

\* A slip of the loop: the test of the similarity is left out, every index
\* of top_indices gets an entry.
KeepAll(sims, top) == top

\* The indices of top_indices the loop appends an entry for.
KeepRelevant(sims, top) ==
    LET InTop(idx) == Relevant(sims, idx) IN SelectSeq(top, InTop)

\* A slip of the loop: the table is narrowed to the rows selected
\* (self.data_df = self.data_df.iloc[top_indices]) before the entries are built.
RecommendationsNarrowingTable(r, df, sims, kept) ==
    IF \E i \in DOMAIN kept : kept[i] > Len(df.rows)
    THEN [obj |-> r, raised |-> TRUE, results |-> <<>>]
    ELSE [obj |-> [r EXCEPT !.data_df =
                      Some([df EXCEPT !.rows = [i \in DOMAIN kept |-> df.rows[kept[i]]]])],
          raised |-> FALSE,
          results |-> [i \in DOMAIN kept |->
                         Recommendation(df, kept[i], sims[kept[i]])]]

\* The loop of recommend: iloc raises IndexError on a row the table lacks.
Recommendations(r, df, sims, kept) ==
    IF \E i \in DOMAIN kept : kept[i] > Len(df.rows)
    THEN [obj |-> r, raised |-> TRUE, results |-> <<>>]
    ELSE [obj |-> r, raised |-> FALSE,
          results |-> [i \in DOMAIN kept |->
                         Recommendation(df, kept[i], sims[kept[i]])]]

\* The indices the loop of recommend builds an entry for, in order.
Kept(sims, k, ties) == KeepRelevant(sims, TopIndices(sims, k, ties))

\* recommend from the similarities on.
Rank(r, sims, k, ties) ==
    Recommendations(r, Get(r.data_df), sims, Kept(sims, k, ties))

\* A slip of a name: the query row is stored over the document matrix
\* (self.tfidf_matrix = self.tfidf_vectorizer.transform([processed_query])).
recommendStoringQueryRow(r, query, k, ties) ==
    IF ~IsLoaded(r) THEN [obj |-> r, raised |-> FALSE, results |-> <<>>]
    ELSE IF ~IsStr(query) \/ ~Get(r.tfidf_vectorizer).fitted
    THEN [obj |-> r, raised |-> TRUE, results |-> <<>>]
    ELSE [Rank(r, Similarities(r, query), k, ties) EXCEPT
            !.obj = [r EXCEPT !.tfidf_matrix =
                        Some(<<QueryVector(Get(r.tfidf_vectorizer), query)>>)]]

\* SHLRecommender.recommend: the object afterwards (no attribute is assigned),
\* and the list returned or the exception raised (AttributeError from
\* preprocess_query on a query that is no string, NotFittedError from
\* transform on an unfitted vectorizer, IndexError from iloc).
recommend(r, query, k, ties) ==
    IF ~IsLoaded(r) THEN [obj |-> r, raised |-> FALSE, results |-> <<>>]
    ELSE IF ~IsStr(query) \/ ~Get(r.tfidf_vectorizer).fitted
    THEN [obj |-> r, raised |-> TRUE, results |-> <<>>]
    ELSE Rank(r, Similarities(r, query), k, ties)

\* ------------------------------------------------------------ evaluation
\* Fractions <<numerator, denominator>> in lowest terms stand for the floats.
RECURSIVE Gcd(_, _)
Gcd(a, b) == IF b = 0 THEN a ELSE Gcd(b, a % b)

Frac(n, d) == LET g == Gcd(n, d) IN <<n \div g, d \div g>>

Zero == <<0, 1>>

FracAdd(a, b) == Frac(a[1] * b[2] + b[1] * a[2], a[2] * b[2])

FracDiv(a, n) == Frac(a[1], a[2] * n)

RECURSIVE FracSum(_)
FracSum(fs) == IF fs = <<>> THEN Zero ELSE FracAdd(fs[1], FracSum(Tail(fs)))

\* sum(xs) / len(xs) if xs else 0
Mean(fs) == IF fs = <<>> THEN Zero ELSE FracDiv(FracSum(fs), Len(fs))

Range(seq) == {seq[i] : i \in DOMAIN seq}

\* A test query: the query text, the record shape (which key holds the
\* expected identifiers) and the expected identifiers.
TestItem(query, shape, relevant) ==
    [query |-> query, shape |-> shape, relevant |-> relevant]

\* A slip of the shapes: every test query is matched by name.
FieldAlwaysName(item) == "name"

\* 'name' for the expected_assessments shape, 'id' for the relevant_ids shape.
FieldToMatch(item) ==
    IF item.shape = "expected_assessments" THEN "name" ELSE "id"

\* if not query or not relevant_items: continue
Skipped(item) == item.query = <<>> \/ item.relevant = <<>>

\* A slip of the denominator: the hits over the number of recommendations
\* (precision in place of recall).
RecallOverRecommended(recommended_items, relevant_items) ==
    Frac(Cardinality(Range(recommended_items) \cap Range(relevant_items)),
         Max(1, Len(recommended_items)))

\* len(set(recommended_items) & set(relevant_items)) / len(relevant_items)
RecallOf(recommended_items, relevant_items) ==
    Frac(Cardinality(Range(recommended_items) \cap Range(relevant_items)),
         Len(relevant_items))

\* A slip of the denominator: the sum over the number of hits, not over
\* len(relevant_items).
AveragePrecisionOverHits(recommended_items, relevant_items) ==
    LET rel == Range(relevant_items)
        hits(i) == Cardinality({j \in 1..i : recommended_items[j] \in rel})
        terms == [i \in DOMAIN recommended_items |->
                    IF recommended_items[i] \in rel THEN Frac(hits(i), i) ELSE Zero] IN
    FracDiv(FracSum(terms), Max(1, hits(Len(recommended_items))))

\* The average-precision loop: at each relevant position i (1-based) add
\* relevant_count / i; the sum is divided by len(relevant_items).
AveragePrecisionOf(recommended_items, relevant_items) ==
    LET rel == Range(relevant_items)
        hits(i) == Cardinality({j \in 1..i : recommended_items[j] \in rel})
        terms == [i \in DOMAIN recommended_items |->
                    IF recommended_items[i] \in rel THEN Frac(hits(i), i) ELSE Zero] IN
    FracDiv(FracSum(terms), Len(relevant_items))

\* [rec.get(field_to_match, '') for rec in recommendations]
RecommendedItems(results, field) == [i \in DOMAIN results |-> results[i][field]]

\* The two measures of one test query, from the identifiers recommended.
Measures(recs, recommended_items, relevant_items) ==
    [obj |-> recs.obj, raised |-> recs.raised,
     recall |-> RecallOf(recommended_items, relevant_items),
     avg_precision |-> AveragePrecisionOf(recommended_items, relevant_items)]

MeasureItem(item, recs) ==
    Measures(recs, RecommendedItems(recs.results, FieldToMatch(item)), item.relevant)

\* One pass of the loop body of SHLRecommender.evaluate.
EvaluateItem(r, item, k, ties) == MeasureItem(item, recommend(r, item.query, k, ties))

\* recalls.append(recall); avg_precisions.append(avg_precision), unless
\* recommend raised.
Accumulate(acc, one) ==
    IF one.raised THEN [acc EXCEPT !.obj = one.obj, !.raised = TRUE]
    ELSE [obj |-> one.obj, raised |-> FALSE,
          recalls |-> Append(acc.recalls, one.recall),
          avg_precisions |-> Append(acc.avg_precisions, one.avg_precision)]

\* A slip of the skip: a skipped test query is scored 0 and counted in the
\* means.
EvaluateStepCountingSkipped(acc, item, k, ties) ==
    IF acc.raised THEN acc
    ELSE IF Skipped(item)
    THEN [acc EXCEPT !.recalls = Append(@, Zero), !.avg_precisions = Append(@, Zero)]
    ELSE Accumulate(acc, EvaluateItem(acc.obj, item, k, ties))

\* One turn of the loop: a skipped test query adds nothing, and nothing runs
\* after an exception.
EvaluateStep(acc, item, k, ties) ==
    IF acc.raised \/ Skipped(item) THEN acc
    ELSE Accumulate(acc, EvaluateItem(acc.obj, item, k, ties))

RECURSIVE EvaluateLoop(_, _, _, _)
EvaluateLoop(acc, items, k, ties) ==
    IF items = <<>> THEN acc
    ELSE EvaluateLoop(EvaluateStep(acc, Head(items), k, ties), Tail(items), k, ties)

\* (mean_recall_at_k, map_at_k) of the lists the loop built.
Metrics(loop) ==
    [obj |-> loop.obj, raised |-> loop.raised,
     metrics |-> IF loop.raised THEN <<Zero, Zero>>
                 ELSE <<Mean(loop.recalls), Mean(loop.avg_precisions)>>]

\* SHLRecommender.evaluate: the object afterwards, and (mean_recall_at_k,
\* map_at_k) or the exception a recommend call raised.
evaluate(r, test_queries, k, ties) ==
    IF test_queries = <<>>
    THEN [obj |-> r, raised |-> FALSE, metrics |-> <<Zero, Zero>>]
    ELSE Metrics(EvaluateLoop([obj |-> r, raised |-> FALSE,
                               recalls |-> <<>>, avg_precisions |-> <<>>],
                              test_queries, k, ties))

\* ---------------------------------------------------------------- inputs
\* Catalog rows.  T1 and T2 carry the same description once cleaned.
RowsTies ==
    <<Rec("T1", "Sales Lead", <<"Sales", "&", "manager">>, NaN),
      Rec("T2", "Sales Head", <<"sales", "manager">>, NaN),
      Rec("T3", "Coder", <<"the", "coding">>, NaN)>>

\* Y2 lacks test_types, Y3 lacks its description.
RowsTypes ==
    <<Rec("Y1", "Seller", <<"sales">>, <<"coding">>),
      Rec("Y2", "Manager", <<"manager">>, NaN),
      Rec("Y3", "Typed", NaN, <<"sales">>)>>

\* D1 carries a duration and two test types, D2 lacks the duration key.
RowsTimed ==
    <<Timed(Rec("D1", "Timed", <<"sales">>, <<"Sales", "manager">>), <<"30">>),
      Rec("D2", "Untimed", <<"coding">>, <<"coding">>)>>

\* No record carries a description or test types.
RowsNoText == <<Rec("N1", "Bare", NaN, NaN)>>

Files ==
    {MissingFile, InvalidFile, JsonFile(<<>>),
     JsonFile(RowsTies), JsonFile(RowsTypes), JsonFile(RowsNoText), JsonFile(RowsTimed)}

\* Tables handed to load_dataframe directly.
Frames ==
    {EmptyFrame, DataFrame(RowsNoText), DataFrame(RowsTies), DataFrame(SubSeq(RowsTypes, 1, 2))}

\* The files and tables that hold no catalog.
EmptyCatalogFiles == {MissingFile, InvalidFile, JsonFile(<<>>)}

MaxRows == Len(RowsTies)

\* The tie orders of the builds explored: ascending and descending index.
TieOrders ==
    {[i \in 1..MaxRows |-> i], [i \in 1..MaxRows |-> MaxRows + 1 - i]}

QueryLexemes == {"Sales", "coding", "zzz", "&"}

RECURSIVE SeqsUpTo(_, _)
SeqsUpTo(S, n) ==
    IF n = 0 THEN {<<>>}
    ELSE LET shorter == SeqsUpTo(S, n - 1) IN
         shorter \cup {Append(q, x) : q \in shorter, x \in S}

Queries == SeqsUpTo(QueryLexemes, MaxQueryLen)

TestItems ==
    {TestItem(<<"Sales">>, "expected_assessments", <<"Sales Lead", "Coder">>),
     TestItem(<<"coding">>, "relevant_ids", <<"T3", "T3">>),
     TestItem(<<"Sales">>, "relevant_ids", <<>>),
     TestItem(<<>>, "expected_assessments", <<"Coder">>),
     TestItem(<<"Sales">>, "relevant_ids", <<"t1", " T1", "Sales Lead">>),
     TestItem(NaN, "relevant_ids", <<"T1">>)}

TestLists == SeqsUpTo(TestItems, MaxTests)

\* ----------------------------------------------------------------- state
VARIABLES
    recommender,   \* app.py's global: None, or the SHLRecommender object
    started,       \* whether the startup event has run
    argsortTies,   \* the build's order among equal values in argsort
    last,          \* the last operation and what it answered
    pinned,        \* an earlier recommend call and its answer, kept for comparison
    refit,         \* a thread inside load_dataframe: the statement it is at, its table
    reader,        \* a thread inside recommend: the statement it is at, what it has read
    scraper,       \* the SHLScraper object of the running process: data, processed_urls
    run,           \* where scrape_catalog is: statement, table, page, rows left on the page
    checkpoint_file,  \* shl_scraper_checkpoint.json on disk
    products_file,    \* shl_products_data.json on disk
    attempted,     \* the catalog pages whose fetch was tried, over all runs
    saved,         \* the catalog pages after which a checkpoint was written in full
    recorded       \* the last checkpoint written in full and not removed since

\* The scraper process, its files and its history.
crawl == <<scraper, run, checkpoint_file, products_file, attempted, saved, recorded>>

vars == <<recommender, started, argsortTies, last, pinned, refit, reader, crawl>>

\* The threads of the concurrent runs.
threads == <<refit, reader>>

Outcome(op, file, query, k, tests, status, results, metrics) ==
    [op |-> op, file |-> file, query |-> query, k |-> k, tests |-> tests,
     status |-> status, results |-> results, metrics |-> metrics]

NoOutcome == Outcome("none", MissingFile, <<>>, 0, <<>>, "none", <<>>, <<Zero, Zero>>)

\* No thread is inside load_dataframe / recommend.
NoRefit == [pc |-> "idle", df |-> EmptyFrame]
NoReader ==
    [pc |-> "idle", query |-> <<>>, k |-> 0,
     vectorizer |-> None, matrix |-> None, data_df |-> None, raised |-> FALSE]

\* SHLScraper.__init__: self.data = [], self.processed_urls = set()
NewScraper == [data |-> <<>>, processed_urls |-> {}]

\* No scraper process runs.
Stopped == [pc |-> "stopped", table |-> 0, page |-> 0, products |-> <<>>, resumed |-> FALSE]

\* No scraper process has run and its files do not exist.
NoCrawl ==
    /\ scraper = NewScraper
    /\ run = Stopped
    /\ checkpoint_file = None
    /\ products_file = None
    /\ attempted = {}
    /\ saved = {}
    /\ recorded = None

Init ==
    /\ recommender = None
    /\ started = FALSE
    /\ argsortTies \in TieOrders
    /\ last = NoOutcome
    /\ pinned = None
    /\ refit = NoRefit
    /\ reader = NoReader
    /\ NoCrawl

\* What startup_event leaves behind, given what the constructor did.
Started(file, c) ==
    /\ recommender' = IF c.raised THEN None ELSE Some(c.obj)
    /\ last' = Outcome("startup", file, <<>>, 0, <<>>,
                       IF c.raised THEN "raised" ELSE "returned", <<>>, <<Zero, Zero>>)

\* app.startup_event: recommender = SHLRecommender(data_file=DATA_FILE); an
\* exception from the constructor is printed and the global stays None.
Startup(file) ==
    /\ ~started
    /\ started' = TRUE
    /\ Started(file, Construct(file))
    /\ UNCHANGED <<argsortTies, pinned, threads, crawl>>

\* A call's answer is on its way back to the caller: requests are served one
\* at a time (the handlers never await), so the next call starts after it.
Pending == last.op \in {"recommend", "evaluate"}

\* AssessmentOutput(...) of one entry: pydantic raises ValidationError on a
\* test_types that is no list and on a duration that is no integer.
IsValidOutput(rec) == rec.test_types # NaN /\ rec.duration # NaN

\* The status of the response: the handler catches nothing, so an exception
\* of recommender.recommend or of the conversion of an entry is answered 500.
ResponseStatus(res) ==
    IF res.raised \/ \E i \in DOMAIN res.results : ~IsValidOutput(res.results[i])
    THEN InternalServerError ELSE Ok

\* The response of app.recommend, given what recommender.recommend did
\* (results keeps the list recommender.recommend returned).
Recommended(query, k, res) ==
    /\ last' = Outcome("recommend", MissingFile, query, k, <<>>,
                       ResponseStatus(res), res.results, <<Zero, Zero>>)
    /\ recommender' = Some(res.obj)

\* app.recommend: 503 without a recommender object, else the recommendations.
HttpRecommend(query, k) ==
    /\ started
    /\ ~Pending
    /\ IF recommender = None THEN
          /\ last' = Outcome("recommend", MissingFile, query, k, <<>>,
                             ServiceUnavailable, <<>>, <<Zero, Zero>>)
          /\ recommender' = recommender
       ELSE Recommended(query, k, recommend(Get(recommender), query, k, argsortTies))
    /\ UNCHANGED <<started, argsortTies, threads, crawl>>

Evaluated(tests, k, res) ==
    /\ last' = Outcome("evaluate", MissingFile, <<>>, k, tests,
                       IF res.raised THEN "raised" ELSE "returned",
                       <<>>, res.metrics)
    /\ recommender' = Some(res.obj)

\* SHLRecommender.evaluate(test_queries, k) called on the live object.
Evaluate(tests, k) ==
    /\ started
    /\ ~Pending
    /\ recommender # None
    /\ Evaluated(tests, k, evaluate(Get(recommender), tests, k, argsortTies))
    /\ UNCHANGED <<started, argsortTies, pinned, threads, crawl>>

Loaded(op, file, res) ==
    /\ recommender' = Some(res.obj)
    /\ last' = Outcome(op, file, <<>>, 0, <<>>,
                       IF res.raised THEN "raised" ELSE "returned", <<>>, <<Zero, Zero>>)

\* recommender.load_dataframe(df) on the live object (a refit).
LoadDataframe(df) ==
    /\ started
    /\ ~Pending
    /\ recommender # None
    /\ Loaded("load_dataframe", MissingFile, load_dataframe(Get(recommender), df))
    /\ UNCHANGED <<started, argsortTies, pinned, threads, crawl>>

\* recommender.load_data(file) on the live object (a refit from a file).
LoadData(file) ==
    /\ started
    /\ ~Pending
    /\ recommender # None
    /\ Loaded("load_data", file, LoadDataOn(Get(recommender), file))
    /\ UNCHANGED <<started, argsortTies, pinned, threads, crawl>>

\* The caller receives the answer of its call.
Respond ==
    /\ Pending
    /\ last' = NoOutcome
    /\ pinned' = pinned
    /\ UNCHANGED <<recommender, started, argsortTies, threads, crawl>>

Next ==
    \/ \E file \in Files : Startup(file)
    \/ \E query \in Queries, k \in MinK..MaxK : HttpRecommend(query, k) /\ UNCHANGED pinned
    \/ \E tests \in TestLists, k \in 1..MaxEvalK : Evaluate(tests, k)
    \/ \E df \in Frames : LoadDataframe(df)
    \/ \E file \in Files : LoadData(file)
    \/ Respond

Spec == Init /\ [][Next]_vars

\* ---------------------------------------------- repeated calls, one index
\* The caller receives the answer of a recommend call and keeps it.
RespondKept ==
    /\ Pending
    /\ last.op = "recommend"
    /\ pinned = None
    /\ pinned' = Some(last)
    /\ last' = NoOutcome
    /\ UNCHANGED <<recommender, started, argsortTies, threads, crawl>>

\* The service after startup: recommend requests only, the index is not refitted.
NextRepeat ==
    \/ \E file \in Files : Startup(file)
    \/ \E query \in Queries, k \in MinK..MaxRepeatK : HttpRecommend(query, k) /\ UNCHANGED pinned
    \/ Respond
    \/ RespondKept

SpecRepeat == Init /\ [][NextRepeat]_vars
\* ------------------------------------------- a refit beside recommend calls
\* One thread runs load_dataframe on the live object while another runs
\* recommend on it; a thread may be switched out between any two statements.
\* The object holds a fitted index when the threads start.
InitConc ==
    /\ recommender = Some(Construct(JsonFile(RowsTies)).obj)
    /\ started = TRUE
    /\ argsortTies \in TieOrders
    /\ last = NoOutcome
    /\ pinned = None
    /\ refit = NoRefit
    /\ reader = NoReader
    /\ NoCrawl

Shared == Get(recommender)

\* The tables of the concurrent refits: those load_dataframe fits when it runs
\* alone, so that a partial index is never what a finished refit leaves.
FittingFrames ==
    {df \in Frames : HasFeatureColumn(df) /\ Vocabulary(FeatureTexts(df)) # {}}

\* load_dataframe is entered with table df.
RefitBegin(df) ==
    /\ refit.pc = "idle"
    /\ refit' = [pc |-> "assign_data_df", df |-> df]
    /\ UNCHANGED <<recommender, started, argsortTies, last, pinned, reader, crawl>>

\* self.data_df = df, and the test for a text column.
RefitAssignTable ==
    /\ refit.pc = "assign_data_df"
    /\ recommender' = Some([Shared EXCEPT !.data_df = Some(refit.df)])
    /\ refit' = IF HasFeatureColumn(refit.df)
                THEN [refit EXCEPT !.pc = "assign_vectorizer"] ELSE NoRefit
    /\ UNCHANGED <<started, argsortTies, last, pinned, reader, crawl>>

\* self.tfidf_vectorizer = TfidfVectorizer(...)
RefitAssignVectorizer ==
    /\ refit.pc = "assign_vectorizer"
    /\ recommender' = Some([Shared EXCEPT !.tfidf_vectorizer = Some(UnfittedVectorizer)])
    /\ refit' = [refit EXCEPT !.pc = "fit_transform"]
    /\ UNCHANGED <<started, argsortTies, last, pinned, reader, crawl>>

\* The vectorizer the thread fits: the one built from its table's texts.
RefitVectorizer ==
    FitVectorizer(FeatureTexts(refit.df), Vocabulary(FeatureTexts(refit.df)))

\* fit_transform fits the vectorizer object in place (or raises ValueError on
\* an empty vocabulary, which ends load_dataframe); its result is not yet
\* assigned.
RefitFitVectorizer ==
    /\ refit.pc = "fit_transform"
    /\ IF Vocabulary(FeatureTexts(refit.df)) = {}
       THEN /\ refit' = NoRefit
            /\ recommender' = recommender
       ELSE /\ refit' = [refit EXCEPT !.pc = "assign_matrix"]
            /\ recommender' = Some([Shared EXCEPT !.tfidf_vectorizer = Some(RefitVectorizer)])
    /\ UNCHANGED <<started, argsortTies, last, pinned, reader, crawl>>

\* self.tfidf_matrix = <the result of fit_transform>
RefitAssignMatrix ==
    /\ refit.pc = "assign_matrix"
    /\ recommender' =
          Some([Shared EXCEPT !.tfidf_matrix =
                   Some(FitMatrix(FeatureTexts(refit.df), RefitVectorizer))])
    /\ refit' = NoRefit
    /\ UNCHANGED <<started, argsortTies, last, pinned, reader, crawl>>

\* recommend is entered.
ReadBegin(query, k) ==
    /\ reader.pc = "idle"
    /\ reader' = [NoReader EXCEPT !.pc = "guard", !.query = query, !.k = k]
    /\ UNCHANGED <<recommender, started, argsortTies, last, pinned, refit, crawl>>

\* if self.data_df is None or ... : return []
ReadGuard ==
    /\ reader.pc = "guard"
    /\ reader' = [reader EXCEPT !.pc = IF IsLoaded(Shared) THEN "transform" ELSE "done"]
    /\ UNCHANGED <<recommender, started, argsortTies, last, pinned, refit, crawl>>

\* self.tfidf_vectorizer.transform(...): NotFittedError on an unfitted vectorizer.
ReadVectorizer ==
    /\ reader.pc = "transform"
    /\ reader' = IF Get(Shared.tfidf_vectorizer).fitted
                 THEN [reader EXCEPT !.pc = "cosine_similarity",
                                     !.vectorizer = Shared.tfidf_vectorizer]
                 ELSE [reader EXCEPT !.pc = "done", !.raised = TRUE]
    /\ UNCHANGED <<recommender, started, argsortTies, last, pinned, refit, crawl>>

\* Where recommend goes from cosine_similarity, given the vectorizer it
\* transformed the query with and the matrix it reads: ValueError when the
\* matrix has another number of columns than the query row; the loop reads
\* the table only for an index of similarity > 0.  Columns of one width that
\* stand for other terms give similarities of unrelated columns: either way.
ReaderSteps(vec, matrix) ==
    IF Cardinality(DOMAIN matrix[1]) # Cardinality(vec.vocabulary) THEN {"raise"}
    ELSE IF DOMAIN matrix[1] # vec.vocabulary THEN {"iloc", "done"}
    ELSE IF Kept(CosineSimilarities(QueryVector(vec, reader.query), matrix),
                 reader.k, argsortTies) = <<>>
    THEN {"done"} ELSE {"iloc"}

\* cosine_similarity(query_vector, self.tfidf_matrix), argsort and the test of
\* the loop.
ReadMatrix ==
    /\ reader.pc = "cosine_similarity"
    /\ \E step \in ReaderSteps(Get(reader.vectorizer), Get(Shared.tfidf_matrix)) :
          reader' = IF step = "raise"
                    THEN [reader EXCEPT !.pc = "done", !.raised = TRUE]
                    ELSE [reader EXCEPT !.pc = step, !.matrix = Shared.tfidf_matrix]
    /\ UNCHANGED <<recommender, started, argsortTies, last, pinned, refit, crawl>>

\* self.data_df.iloc[idx] in the loop: the table the entries are built from.
ReadTable ==
    /\ reader.pc = "iloc"
    /\ reader' = [reader EXCEPT !.pc = "done", !.data_df = Shared.data_df]
    /\ UNCHANGED <<recommender, started, argsortTies, last, pinned, refit, crawl>>

\* recommend returns (or its exception reaches the caller).
ReadReturn ==
    /\ reader.pc = "done"
    /\ reader' = NoReader
    /\ UNCHANGED <<recommender, started, argsortTies, last, pinned, refit, crawl>>

NextConc ==
    \/ \E df \in FittingFrames : RefitBegin(df)
    \/ RefitAssignTable
    \/ RefitAssignVectorizer
    \/ RefitFitVectorizer
    \/ RefitAssignMatrix
    \/ \E query \in Queries, k \in MinK..MaxRepeatK : ReadBegin(query, k)
    \/ ReadGuard
    \/ ReadVectorizer
    \/ ReadMatrix
    \/ ReadTable
    \/ ReadReturn

SpecConc == InitConc /\ [][NextConc]_vars

\* ------------------------------------------- the evaluation scripts
\* The catalog of the worked example: A, B, C in this order.
RowsExample ==
    <<Rec("A", "A", <<"sales", "manager", "leadership">>, NaN),
      Rec("B", "B", <<"software", "engineer", "coding">>, NaN),
      Rec("C", "C", <<"sales", "customer", "service">>, NaN)>>

\* Two catalog items of one name.
RowsSameName ==
    <<Rec("S1", "Twin", <<"sales">>, NaN),
      Rec("S2", "Twin", <<"sales", "manager">>, NaN)>>

\* The --data files of the scripts.
ScriptFiles ==
    {MissingFile, JsonFile(RowsExample), JsonFile(RowsSameName), JsonFile(RowsTies)}

ScriptQueries == {<<>>, <<"sales", "manager">>, <<"Sales">>, <<"coding">>, <<"zzz">>}

\* The --test files of the scripts: TestItems, and a test query that expects
\* the shared name.
ScriptTestItems ==
    TestItems \cup {TestItem(<<"Sales">>, "expected_assessments", <<"Twin">>)}

ScriptTestLists == SeqsUpTo(ScriptTestItems, MaxTests)

\* test_item.get('expected_assessments', []): a record of the relevant_ids
\* shape has no such key.
ExpectedAssessments(item) ==
    IF item.shape = "expected_assessments" THEN item.relevant ELSE <<>>

\* One pass of the loop body of calculate_metrics, the recommendations given:
\* the names recommended are matched with expected_assessments.
MeasureNames(item, recs) ==
    Measures(recs, RecommendedItems(recs.results, "name"), ExpectedAssessments(item))

\* One turn of the loop of calculate_metrics:
\* if not query or not expected_assessments: continue
CalculateStep(acc, item, k, ties) ==
    IF acc.raised \/ item.query = <<>> \/ ExpectedAssessments(item) = <<>> THEN acc
    ELSE Accumulate(acc, MeasureNames(item, recommend(acc.obj, item.query, k, ties)))

RECURSIVE CalculateLoop(_, _, _, _)
CalculateLoop(acc, items, k, ties) ==
    IF items = <<>> THEN acc
    ELSE CalculateLoop(CalculateStep(acc, Head(items), k, ties), Tail(items), k, ties)

\* evaluate.calculate_metrics: (mean_recall, map_k), or the exception a
\* recommend call raised.
calculate_metrics(r, test_queries, k, ties) ==
    Metrics(CalculateLoop([obj |-> r, raised |-> FALSE,
                           recalls |-> <<>>, avg_precisions |-> <<>>],
                          test_queries, k, ties))

\* evaluate.main / run_evaluation.main: recommender = SHLRecommender(data_file=args.data).
\* An exception of the constructor ends the script with no recommender.
InitializeRecommender(file) ==
    /\ ~started
    /\ started' = TRUE
    /\ Started(file, Construct(file))
    /\ UNCHANGED <<argsortTies, pinned, threads, crawl>>

\* A call of the script has not returned yet (the scripts are sequential).
Calling == last.op \in {"recommender.recommend", "calculate_metrics"}

\* recommender.recommend(query, num_recommendations=k) called on the object,
\* as calculate_metrics does, with a k that nothing validates.
DirectRecommend(query, k) ==
    /\ started
    /\ ~Calling
    /\ recommender # None
    /\ LET res == recommend(Get(recommender), query, k, argsortTies) IN
          /\ last' = Outcome("recommender.recommend", MissingFile, query, k, <<>>,
                             IF res.raised THEN "raised" ELSE "returned",
                             res.results, <<Zero, Zero>>)
          /\ recommender' = Some(res.obj)
    /\ UNCHANGED <<started, argsortTies, pinned, threads, crawl>>

\* calculate_metrics(recommender, test_queries, k=args.k)
CalculateMetrics(tests, k) ==
    /\ started
    /\ ~Calling
    /\ recommender # None
    /\ LET res == calculate_metrics(Get(recommender), tests, k, argsortTies) IN
          /\ last' = Outcome("calculate_metrics", MissingFile, <<>>, k, tests,
                             IF res.raised THEN "raised" ELSE "returned",
                             <<>>, res.metrics)
          /\ recommender' = Some(res.obj)
    /\ UNCHANGED <<started, argsortTies, pinned, threads, crawl>>

\* The call returns to the script.
Return ==
    /\ Calling
    /\ last' = NoOutcome
    /\ UNCHANGED <<recommender, started, argsortTies, pinned, threads, crawl>>

NextScript ==
    \/ \E file \in ScriptFiles : InitializeRecommender(file)
    \/ \E query \in ScriptQueries, k \in 0..MaxScriptK : DirectRecommend(query, k)
    \/ \E tests \in ScriptTestLists, k \in 0..MaxScriptK : CalculateMetrics(tests, k)
    \/ Return

SpecScript == Init /\ [][NextScript]_vars

\* ------------------------------------------------------ the catalog scraper
\* The service, the scripts and their threads.
service == <<recommender, started, argsortTies, last, pinned, threads>>

\* The product URLs the site lists.
Urls == {"u1", "u2"}

\* The product rows parse_product_table finds on a catalog page, by URL: the
\* site decides them, a product may be listed on several pages.
PageRows == SeqsUpTo(Urls, MaxRowsPerPage)

\* table['pages']
Pages(t) == IF t = 1 THEN Table1Pages ELSE Table2Pages

\* The catalog pages: table number (from 1) and page index (from 0).
AllPages ==
    {<<1, p>> : p \in 0..(Table1Pages - 1)} \cup {<<2, p>> : p \in 0..(Table2Pages - 1)}

\* What save_checkpoint(table_num, page_num) dumps.
Checkpoint(data, table_num, page_num) ==
    [valid |-> TRUE, data |-> data, next_table |-> table_num, next_page |-> page_num]

\* The file after open(.., 'w') and before json.dump has finished: no JSON document.
Truncated == [valid |-> FALSE, data |-> <<>>, next_table |-> 0, next_page |-> 0]

\* A slip of load_checkpoint: processed_urls is not rebuilt from the data loaded.
load_checkpointKeepingUrls(s, file) ==
    IF file = None
    THEN [raised |-> FALSE, obj |-> s, next_table |-> 1, next_page |-> 0, resumed |-> FALSE]
    ELSE IF ~Get(file).valid
    THEN [raised |-> TRUE, obj |-> s, next_table |-> 1, next_page |-> 0, resumed |-> FALSE]
    ELSE [raised |-> FALSE,
          obj |-> [s EXCEPT !.data = Get(file).data],
          next_table |-> Get(file).next_table, next_page |-> Get(file).next_page,
          resumed |-> TRUE]

\* SHLScraper.load_checkpoint: (1, 0) without a file; json.load raises on a
\* file that holds no JSON document; else data and processed_urls are set
\* from the file and (next_table, next_page) is returned.
load_checkpoint(s, file) ==
    IF file = None
    THEN [raised |-> FALSE, obj |-> s, next_table |-> 1, next_page |-> 0, resumed |-> FALSE]
    ELSE IF ~Get(file).valid
    THEN [raised |-> TRUE, obj |-> s, next_table |-> 1, next_page |-> 0, resumed |-> FALSE]
    ELSE [raised |-> FALSE,
          obj |-> [data |-> Get(file).data, processed_urls |-> Range(Get(file).data)],
          next_table |-> Get(file).next_table, next_page |-> Get(file).next_page,
          resumed |-> TRUE]

\* The two for loops of scrape_catalog, entered at page p of table t: the
\* page the body runs on next, or the statements after the loops.
\* range(start_page, table['pages']) is empty when p is past the last page,
\* and the next table starts at page 0.
RECURSIVE LoopAt(_, _, _)
LoopAt(t, p, resumed) ==
    IF t > NumTables
    THEN [pc |-> "finish", table |-> 0, page |-> 0, products |-> <<>>, resumed |-> resumed]
    ELSE IF p < Pages(t)
    THEN [pc |-> "page", table |-> t, page |-> p, products |-> <<>>, resumed |-> resumed]
    ELSE LoopAt(t + 1, 0, resumed)

\* python scraper.py: scraper = SHLScraper()
Start ==
    /\ run.pc = "stopped"
    /\ scraper' = NewScraper
    /\ run' = [Stopped EXCEPT !.pc = "load_checkpoint"]
    /\ UNCHANGED <<service, checkpoint_file, products_file, attempted, saved, recorded>>

\* What scrape_catalog does with what load_checkpoint returned: an exception
\* ends the process, else the loops are entered at the position returned.
Resumed(c) ==
    /\ scraper' = c.obj
    /\ run' = IF c.raised THEN Stopped ELSE LoopAt(c.next_table, c.next_page, c.resumed)

\* scrape_catalog: next_table, next_page = self.load_checkpoint()
LoadCheckpoint ==
    /\ run.pc = "load_checkpoint"
    /\ Resumed(load_checkpoint(scraper, checkpoint_file))
    /\ UNCHANGED <<service, checkpoint_file, products_file, attempted, saved, recorded>>

\* scrape_catalog, one page: try_url_variations found no valid content and
\* the page is skipped with no checkpoint.
FetchFailed ==
    /\ run.pc = "page"
    /\ attempted' = attempted \cup {<<run.table, run.page>>}
    /\ run' = LoopAt(run.table, run.page + 1, run.resumed)
    /\ UNCHANGED <<service, scraper, checkpoint_file, products_file, saved, recorded>>

\* scrape_catalog, one page: the content is fetched and parse_product_table
\* gives its product rows.
FetchPage(rows) ==
    /\ run.pc = "page"
    /\ attempted' = attempted \cup {<<run.table, run.page>>}
    /\ run' = [run EXCEPT !.pc = "products", !.products = rows]
    /\ UNCHANGED <<service, scraper, checkpoint_file, products_file, saved, recorded>>

\* scrape_catalog, one product of the page: a URL already processed is
\* skipped; else the details are extracted and the product is appended and
\* its URL added, unless extract_product_details raised (the exception is
\* caught and the product is left out).
ProcessProduct(extracted) ==
    /\ run.pc = "products"
    /\ run.products # <<>>
    /\ scraper' =
          IF Head(run.products) \in scraper.processed_urls \/ ~extracted THEN scraper
          ELSE [data |-> Append(scraper.data, Head(run.products)),
                processed_urls |-> scraper.processed_urls \cup {Head(run.products)}]
    /\ run' = [run EXCEPT !.products = Tail(@)]
    /\ UNCHANGED <<service, checkpoint_file, products_file, attempted, saved, recorded>>

\* save_checkpoint: open(self.checkpoint_file, 'w') empties the file.
OpenCheckpoint ==
    /\ run.pc = "products"
    /\ run.products = <<>>
    /\ checkpoint_file' = Some(Truncated)
    /\ run' = [run EXCEPT !.pc = "dump"]
    /\ UNCHANGED <<service, scraper, products_file, attempted, saved, recorded>>

\* save_checkpoint: json.dump writes the document and the file is closed;
\* then save_data() on every fifth page, and the loop goes on.
DumpCheckpoint ==
    /\ run.pc = "dump"
    /\ checkpoint_file' = Some(Checkpoint(scraper.data, run.table, run.page + 1))
    /\ recorded' = Some(Checkpoint(scraper.data, run.table, run.page + 1))
    /\ saved' = saved \cup {<<run.table, run.page>>}
    /\ products_file' = IF run.page % SaveEvery = 0 THEN Some(scraper.data) ELSE products_file
    /\ run' = LoopAt(run.table, run.page + 1, run.resumed)
    /\ UNCHANGED <<service, scraper, attempted>>

\* scrape_catalog after the loops: save_data(), and the checkpoint file is
\* removed if it exists.
Finish ==
    /\ run.pc = "finish"
    /\ products_file' = Some(scraper.data)
    /\ checkpoint_file' = None
    /\ recorded' = None
    /\ run' = [run EXCEPT !.pc = "done"]
    /\ UNCHANGED <<service, scraper, attempted, saved>>

\* The process is interrupted (Ctrl-C, kill, power loss) at the statement it
\* is at: its object is lost, the files stay as they are.
Interrupt ==
    /\ run.pc \notin {"stopped", "done"}
    /\ run' = Stopped
    /\ scraper' = NewScraper
    /\ UNCHANGED <<service, checkpoint_file, products_file, attempted, saved, recorded>>

NextScraper ==
    \/ Start
    \/ LoadCheckpoint
    \/ FetchFailed
    \/ \E rows \in PageRows : FetchPage(rows)
    \/ \E extracted \in BOOLEAN : ProcessProduct(extracted)
    \/ OpenCheckpoint
    \/ DumpCheckpoint
    \/ Finish
    \/ Interrupt

SpecScraper == Init /\ [][NextScraper]_vars

\* ---------------------------------------------------------------- claims
\* The index the live object holds answers queries: all three attributes are set.
Built == recommender # None /\ IsLoaded(Get(recommender))

\* A recommend request was answered with a list.
Answered == last.op = "recommend" /\ last.status = Ok

Scores == [i \in DOMAIN last.results |-> last.results[i].similarity_score]

\* C1: recommend returns at most k results, every similarity_score is
\* strictly greater than 0, and the scores never increase from first to last.
C1_AtMostKPositiveNonIncreasing ==
    Answered =>
        /\ Len(last.results) <= last.k
        /\ \A i \in DOMAIN Scores : Scores[i] > 0
        /\ \A i, j \in DOMAIN Scores : i < j => Scores[i] >= Scores[j]

\* C1 witness: a request for k = 2 answered with two results of different scores.
C1_Witness ==
    /\ Answered
    /\ last.k = 2
    /\ Len(last.results) = 2
    /\ Scores[1] > Scores[2]

\* The similarities the answered request was ranked on.
LastSimilarities == Similarities(Get(recommender), last.query)

ReturnedRows == {last.results[i].row : i \in DOMAIN last.results}

\* C2: items of exactly equal similarity are returned in catalog order, and
\* when only one of two such items fits in the top k it is the earlier one.
C2_TiesInCatalogOrder ==
    (Answered /\ Built) =>
        /\ \A i, j \in DOMAIN last.results :
              (i < j /\ Scores[i] = Scores[j]) => last.results[i].row < last.results[j].row
        /\ \A i \in DOMAIN last.results : \A other \in DOMAIN LastSimilarities :
              (other \notin ReturnedRows /\ LastSimilarities[other] = Scores[i])
                  => last.results[i].row < other

\* The number of catalog items with similarity strictly greater than 0.
Positive == Cardinality({i \in DOMAIN LastSimilarities : LastSimilarities[i] > 0})

\* C3: recommend returns exactly min(k, P) results, P the number of items of
\* similarity > 0; no item left out scores strictly higher than a returned
\* one; no zero-score item pads the result.
C3_ExactlyMinKPositive ==
    (Answered /\ Built) =>
        /\ Len(last.results) = Min(last.k, Positive)
        /\ \A i \in DOMAIN last.results : \A other \in DOMAIN LastSimilarities :
              other \notin ReturnedRows => LastSimilarities[other] <= Scores[i]
        /\ \A i \in DOMAIN last.results : LastSimilarities[last.results[i].row] > 0

\* C3 witness: fewer positive items than k, and the answer holds just those.
C3_Witness ==
    /\ Answered
    /\ Built
    /\ Positive >= 1
    /\ Positive < last.k
    /\ Positive < Len(LastSimilarities)
    /\ Len(last.results) = Positive

\* C4: recommend without a successful build_index fails with
\* ServiceUnavailable, whether no recommender object exists or the object
\* was created from a missing, unparseable or empty catalog file.
C4_UnbuiltRecommendIsUnavailable ==
    (last.op = "recommend" /\ ~Built) => last.status = ServiceUnavailable

\* C5: building the index from an empty catalog (an empty record list, a
\* missing or unparseable file) fails; it does not complete silently.
C5_EmptyCatalogFails ==
    (last.op \in {"startup", "load_data"} /\ last.file \in EmptyCatalogFiles)
        => last.status = "raised"

\* C6: evaluate without a successful build_index fails with
\* ServiceUnavailable; it returns no metric pair.
C6_UnbuiltEvaluateIsUnavailable ==
    (last.op = "evaluate" /\ ~Built) => last.status # "returned"

\* The three attributes come from one fit of the held table.
FromOneFit(r) ==
    /\ IsLoaded(r)
    /\ Get(r.tfidf_vectorizer).fitted
    /\ HasFeatureColumn(Get(r.data_df))
    /\ Len(Get(r.tfidf_matrix)) = Len(Get(r.data_df).rows)
    /\ r = FitTexts(r, Get(r.data_df), FeatureTexts(Get(r.data_df))).obj

AllUnset(r) ==
    r.data_df = None /\ r.tfidf_vectorizer = None /\ r.tfidf_matrix = None

\* C7: after any sequence of load_data / load_dataframe calls the table, the
\* vectorizer and the matrix all derive from the same catalog (one matrix row
\* per table row), or are all unset.
C7_IndexIsOneFitOrUnset ==
    recommender # None => (AllUnset(Get(recommender)) \/ FromOneFit(Get(recommender)))

\* What a finished recommend call read, as one object.
Observed ==
    [data_df |-> reader.data_df, tfidf_vectorizer |-> reader.vectorizer,
     tfidf_matrix |-> reader.matrix]

\* C8: a recommend call that runs beside a refit observes the complete
\* previous index or the complete new one: the table, the vectorizer and the
\* matrix it read are those of one fit.
C8_ReaderObservesOneFit ==
    (reader.pc = "done" /\ reader.data_df # None) => FromOneFit(Observed)

\* C9: recommend and evaluate leave the fitted index unchanged, and the answer
\* of a call is the one the same call gives on the index it leaves behind.
C9_CallsLeaveIndexUnchanged ==
    [][(~Pending /\ Pending') =>
          /\ recommender' = recommender
          /\ (last'.op = "recommend" /\ recommender # None) =>
                last'.results =
                    recommend(Get(recommender'), last'.query, last'.k, argsortTies).results]_vars

\* C9 witness: evaluate returned a positive recall from a built index.
C9_Witness ==
    /\ last.op = "evaluate"
    /\ last.status = "returned"
    /\ Built
    /\ last.metrics[1][1] > 0

\* C10: on a fixed index, a recommend call repeated with the same query and k
\* returns the same items in the same order with the same scores, whatever
\* calls were served in between.
C10_RepeatedCallSameAnswer ==
    (pinned # None /\ last.op = "recommend"
        /\ last.query = Get(pinned).query /\ last.k = Get(pinned).k)
    => (last.status = Get(pinned).status /\ last.results = Get(pinned).results)

\* C10 witness: a kept answer of two equally scored items, and the same call
\* answered again.
C10_Witness ==
    /\ pinned # None
    /\ Answered
    /\ last.query = Get(pinned).query
    /\ last.k = Get(pinned).k
    /\ Len(last.results) = 2
    /\ Scores[1] = Scores[2]

\* ------------------------------------------------- claims on evaluation
\* An evaluate call returned its pair of means.
EvaluateReturned == last.op = "evaluate" /\ last.status = "returned"

\* A test query that is counted: its text and its expected list are not empty.
IsCounted(item) == item.query # <<>> /\ item.relevant # <<>>

CountedTests == SelectSeq(last.tests, IsCounted)

\* The identifiers of the top-k recommendations of a test query, in rank
\* order, on the field its shape selects.
TopK(item) ==
    RecommendedItems(recommend(Get(recommender), item.query, last.k, argsortTies).results,
                     FieldToMatch(item))

\* The distinct expected identifiers found among top_k, over the number of
\* expected identifiers listed.
RecallAtK(top_k, expected) ==
    Frac(Cardinality({e \in Range(expected) : \E j \in DOMAIN top_k : top_k[j] = e}),
         Len(expected))

RecallOfTest(item) == RecallAtK(TopK(item), item.relevant)

\* C11: the recall of every counted test query is the number of distinct
\* expected identifiers among its top-k recommendations divided by the number
\* of its expected identifiers; the mean recall returned is the mean of these.
C11_RecallIsHitsOverExpected ==
    EvaluateReturned =>
        last.metrics[1] =
            Mean([i \in DOMAIN CountedTests |-> RecallOfTest(CountedTests[i])])

\* C11 witness: expected {Sales Lead, Coder}, two recommendations at k = 2 of
\* which one is expected: recall 1/2.
C11_Witness ==
    /\ EvaluateReturned
    /\ Built
    /\ last.k = 2
    /\ last.tests = <<TestItem(<<"Sales">>, "expected_assessments", <<"Sales Lead", "Coder">>)>>
    /\ Len(TopK(last.tests[1])) = 2
    /\ last.metrics[1] = <<1, 2>>

\* The scan of top_k from position j on, hits found before j: each hit adds
\* (hits so far, this one included) / j.
RECURSIVE PrecisionSum(_, _, _, _)
PrecisionSum(top_k, expected, j, hits) ==
    IF j > Len(top_k) THEN Zero
    ELSE LET hit == top_k[j] \in Range(expected)
             rest == PrecisionSum(top_k, expected, j + 1, IF hit THEN hits + 1 ELSE hits) IN
         IF hit THEN FracAdd(Frac(hits + 1, j), rest) ELSE rest

AveragePrecisionAtK(top_k, expected) ==
    FracDiv(PrecisionSum(top_k, expected, 1, 0), Len(expected))

\* The ranking of the test query is computed once and scanned as a value.
AveragePrecisionOfTest(item) ==
    CHOOSE ap \in {AveragePrecisionAtK(top_k, item.relevant) : top_k \in {TopK(item)}} : TRUE

\* C12: the average precision of every counted test query is the sum, over
\* the hits of its top-k recommendations scanned in rank order, of (hits so
\* far) / (1-indexed position), divided by the number of its expected
\* identifiers; the MAP returned is the mean of these.
C12_AveragePrecisionOverExpected ==
    EvaluateReturned =>
        last.metrics[2] =
            Mean([i \in DOMAIN CountedTests |-> AveragePrecisionOfTest(CountedTests[i])])

\* C12 witness: expected {Sales Lead, Coder}, two recommendations at k = 2,
\* the first a hit and the second not: AP = (1/1)/2 = 1/2.
C12_Witness ==
    /\ EvaluateReturned
    /\ Built
    /\ last.k = 2
    /\ last.tests = <<TestItem(<<"Sales">>, "expected_assessments", <<"Sales Lead", "Coder">>)>>
    /\ TopK(last.tests[1]) = <<"Sales Lead", "Sales Head">>
    /\ last.metrics[2] = <<1, 2>>

\* C13: test queries with an empty text or an empty expected list are left
\* out of both means: the pair returned is the one the counted queries alone
\* give, and it is (0, 0) when no query is counted.
C13_SkippedQueriesLeaveMeansUnchanged ==
    EvaluateReturned =>
        /\ last.metrics =
              evaluate(Get(recommender), CountedTests, last.k, argsortTies).metrics
        /\ CountedTests = <<>> => last.metrics = <<Zero, Zero>>

\* C13 witness: a test set of one skipped and one counted query, with a
\* positive mean recall.
C13_Witness ==
    /\ EvaluateReturned
    /\ Len(last.tests) = 2
    /\ Len(CountedTests) = 1
    /\ last.metrics[1][1] > 0

\* -------------------------------------------------- claims on the query
\* The live object holds an index fitted on the table it holds.
Fitted == recommender # None /\ FromOneFit(Get(recommender))

\* No term of the normalized query is in the vocabulary of the index.
NoVocabularyTerm ==
    Terms(preprocess_query(last.query))
        \cap Get(Get(recommender).tfidf_vectorizer).vocabulary = {}

\* C14: on a built index a query whose normalized text holds no vocabulary
\* term (the empty string, out-of-vocabulary words only) is answered with the
\* empty list, for every k, and no error.
C14_NoVocabularyTermGivesEmptyList ==
    (last.op = "recommend" /\ Fitted /\ NoVocabularyTerm)
        => (last.status = Ok /\ last.results = <<>>)

\* C14 witness: a query of an out-of-vocabulary word only, asked with the
\* largest k on a fitted index.
C14_Witness ==
    /\ last.op = "recommend"
    /\ Fitted
    /\ last.query = <<"zzz">>
    /\ last.k = MaxK
    /\ last.results = <<>>

\* C15: on a built index every query text is answered with a valid
\* (possibly empty) list; no query gets an exception or an error response.
C15_EveryQueryIsAnswered ==
    (last.op = "recommend" /\ Fitted) => last.status = Ok

\* ------------------------------------------------ claims on the catalog
\* The catalog row an entry of the answer was built from.
RowOf(entry) == Get(Get(recommender).data_df).rows[entry.row]

\* The value served for an optional field: the record's, the default when
\* the record lacks the field.
Defaulted(value, default) == IF value = NaN THEN default ELSE value

\* C16: a record that lacks an optional field is served with the default
\* (test_types the empty sequence, duration 0), whether every record lacks
\* the field or only some do, and the answer is serialized without error.
C16_MissingOptionalFieldsDefault ==
    (last.op = "recommend" /\ Fitted) =>
        /\ last.status = Ok
        /\ \A i \in DOMAIN last.results :
              /\ last.results[i].test_types
                    = Defaulted(RowOf(last.results[i]).test_types, <<>>)
              /\ last.results[i].duration
                    = Defaulted(RowOf(last.results[i]).duration, <<"0">>)

\* ------------------------------------------ claims on the normalization
\* The document texts the index of the live object was fitted on.
FittedTexts == FeatureTexts(Get(Get(recommender).data_df))

\* The descriptions of the catalog that are strings.
Descriptions ==
    {Get(Get(recommender).data_df).rows[i].description :
        i \in DOMAIN Get(Get(recommender).data_df).rows} \ {NaN}

\* The fit-time and the query-time normalizer agree on the query asked and
\* on every description of the catalog.
NormalizersAgree ==
    /\ last.op = "recommend" => preprocess_query(last.query) = clean_text(last.query)
    /\ Fitted => \A text \in Descriptions : preprocess_query(text) = clean_text(text)

C18_NonStringNormalizesToEmpty ==
    /\ (last.op \in {"startup", "load_data"} /\ Fitted)
          => \A i \in DOMAIN Get(Get(recommender).data_df).rows :
                IsStr(Get(Get(recommender).data_df).rows[i].description)
    /\ (last.op = "evaluate" /\ Fitted /\ \E i \in DOMAIN last.tests : ~IsStr(last.tests[i].query))
          => last.status = "returned"

\* The field a test query is matched on, by its shape.
ShapeField(item) == IF item.shape = "relevant_ids" THEN "id" ELSE "name"

\* The positions of the recommendations of a test query whose value of the
\* field is, character for character, an expected identifier.
ExactHits(item, results) ==
    {j \in DOMAIN results : \E e \in Range(item.relevant) : results[j][ShapeField(item)] = e}

HasExactHit(item) ==
    ExactHits(item, recommend(Get(recommender), item.query, last.k, argsortTies).results) # {}

\* C19: a recommendation is a hit only when the field its test query's shape
\* selects (name for expected_assessments, id for relevant_ids) equals an
\* expected identifier exactly; both measures are positive just when some
\* counted query has such a hit, whatever its shape.
C19_ExactMatchOnShapeField ==
    EvaluateReturned =>
        /\ last.metrics[1][1] > 0 <=> \E i \in DOMAIN CountedTests : HasExactHit(CountedTests[i])
        /\ last.metrics[2][1] > 0 <=> \E i \in DOMAIN CountedTests : HasExactHit(CountedTests[i])

\* C19 witness: T1 is recommended for a relevant_ids query that expects "t1",
\* " T1" and the name "Sales Lead": no hit, both means 0.
C19_Witness ==
    /\ EvaluateReturned
    /\ Built
    /\ last.tests = <<TestItem(<<"Sales">>, "relevant_ids", <<"t1", " T1", "Sales Lead">>)>>
    /\ \E j \in DOMAIN TopK(last.tests[1]) : TopK(last.tests[1])[j] = "T1"
    /\ last.metrics = <<Zero, Zero>>

\* ---------------------------------------------------- claims on the fit
\* The index a first build from the file of the last load gives.
FirstBuild == Construct(last.file).obj

\* C20: fitting is deterministic: the index a build from a catalog leaves is
\* the one any other build from the same catalog gives (same table,
\* vocabulary, weights and matrix), whatever was fitted before, and the two
\* answer every query and k with the same items in the same order.
C20_FitIsDeterministic ==
    (last.op = "load_data" /\ last.status = "returned" /\ ~IsEmptyFrame(load_data(last.file)))
        => /\ Get(recommender) = FirstBuild
           /\ \A query \in Queries, k \in MinK..MaxRepeatK :
                 recommend(Get(recommender), query, k, argsortTies).results
                     = recommend(FirstBuild, query, k, argsortTies).results

\* C20 witness: a live object was refitted from a catalog file and holds a
\* fitted index.
C20_Witness ==
    /\ last.op = "load_data"
    /\ last.status = "returned"
    /\ last.file = JsonFile(RowsTypes)
    /\ Fitted

DirectReturned == last.op = "recommender.recommend" /\ last.status = "returned"

\* The ids of the catalog the live object holds, in table order.
CatalogIds ==
    LET rows == Get(Get(recommender).data_df).rows IN [i \in DOMAIN rows |-> rows[i].id]

ResultIds == [i \in DOMAIN last.results |-> last.results[i].id]

\* recommend("sales manager", 2) returned on the catalog A, B, C.
ExampleAsked ==
    /\ DirectReturned
    /\ Built
    /\ CatalogIds = <<"A", "B", "C">>
    /\ last.query = <<"sales", "manager">>
    /\ last.k = 2

\* C21: on the catalog A "sales manager leadership", B "software engineer
\* coding", C "sales customer service", recommend("sales manager", 2) returns
\* exactly A then C, both scores above 0, A's score at least C's, and no B.
C21_ExampleReturnsAThenC ==
    ExampleAsked =>
        /\ ResultIds = <<"A", "C">>
        /\ \A i \in DOMAIN Scores : Scores[i] > 0
        /\ Scores[1] >= Scores[2]

\* C21 witness: the example call returned two entries.
C21_Witness == ExampleAsked /\ Len(last.results) = 2

\* C22: recommend called directly with any k >= 0 returns at most k entries:
\* the empty list for k = 0, and for a k larger than the catalog at most one
\* entry per catalog item.
C22_LengthBoundForEveryK ==
    DirectReturned =>
        /\ Len(last.results) <= last.k
        /\ last.k = 0 => last.results = <<>>
        /\ \A i, j \in DOMAIN last.results :
              last.results[i].row = last.results[j].row => i = j

\* ------------------------------------- claims on the two entry points
\* calculate_metrics was called and has returned or raised.
Calculated == last.op = "calculate_metrics"

\* The test queries calculate_metrics counts.
IsCountedByName(item) == item.query # <<>> /\ ExpectedAssessments(item) # <<>>

\* C23: for every index, k and test-query list of either record shape,
\* calculate_metrics returns the pair SHLRecommender.evaluate returns, and
\* counts exactly the test queries evaluate counts.
C23_EntryPointsAgree ==
    Calculated =>
        /\ SelectSeq(last.tests, IsCountedByName) = CountedTests
        /\ \E e \in {evaluate(Get(recommender), last.tests, last.k, argsortTies)} :
              /\ e.raised = (last.status = "raised")
              /\ e.metrics = last.metrics

\* A quotient between 0 and 1.
InUnit(f) == 0 <= f[1] /\ f[1] <= f[2]

\* The recall and the average precision calculate_metrics gives a test query.
MeasuresOfTest(item) ==
    MeasureNames(item, recommend(Get(recommender), item.query, last.k, argsortTies))

\* C24: every per-query recall and average precision, and so the mean
\* recall and the MAP returned, lies in [0, 1], also when two catalog items
\* share a name and when an expected list repeats an entry.
C24_MetricsInUnitInterval ==
    (Calculated /\ last.status = "returned") =>
        /\ InUnit(last.metrics[1])
        /\ InUnit(last.metrics[2])
        /\ \A i \in DOMAIN last.tests :
              IsCountedByName(last.tests[i]) =>
                  \E m \in {MeasuresOfTest(last.tests[i])} :
                      InUnit(m.recall) /\ InUnit(m.avg_precision)

\* ------------------------------------------------- claims on the scraper
\* C25: the data collected never holds two products of one URL, and
\* processed_urls is the set of the URLs in data, after every step of
\* scrape_catalog, across a restart from a checkpoint, and when a product
\* row is listed on more than one page.
C25_DataUrlsUniqueAndTracked ==
    /\ \A i, j \in DOMAIN scraper.data : scraper.data[i] = scraper.data[j] => i = j
    /\ scraper.processed_urls = Range(scraper.data)

\* C25 witness: a run resumed from a checkpoint meets, on a later page, a
\* product row it already holds, with two products collected.
C25_Witness ==
    /\ run.resumed
    /\ run.pc = "products"
    /\ run.products # <<>>
    /\ Head(run.products) \in scraper.processed_urls
    /\ Len(scraper.data) = 2

\* Page a comes before page b in the order of the crawl.
Before(a, b) == a[1] < b[1] \/ (a[1] = b[1] /\ a[2] < b[2])

\* The pages at or after position (t, p).
PagesFrom(t, p) == {pg \in AllPages : ~Before(pg, <<t, p>>)}

\* The run is at the first page at or after (t, p), or past the loops when
\* there is none.
RunIsAt(r, t, p) ==
    IF PagesFrom(t, p) = {} THEN r.pc = "finish"
    ELSE /\ r.pc = "page"
         /\ <<r.table, r.page>> \in PagesFrom(t, p)
         /\ \A pg \in PagesFrom(t, p) : ~Before(pg, <<r.table, r.page>>)

\* A checkpoint written in full holds the products collected so far and the
\* position after the page just done.
CheckpointRecordsPosition ==
    (checkpoint_file' # checkpoint_file /\ checkpoint_file' # None /\ Get(checkpoint_file').valid)
        => /\ Get(checkpoint_file').data = scraper.data
           /\ Get(checkpoint_file').next_table = run.table
           /\ Get(checkpoint_file').next_page = run.page + 1

\* A run that starts when a checkpoint was written in full resumes at the
\* position recorded, with every product of that checkpoint.
ResumeKeepsCheckpoint ==
    (LoadCheckpoint /\ recorded # None)
        => /\ RunIsAt(run', Get(recorded).next_table, Get(recorded).next_page)
           /\ scraper'.data = Get(recorded).data

\* The checkpoint file is removed only past the loops, every page attempted.
RemovedAfterBothTables ==
    (checkpoint_file # None /\ checkpoint_file' = None)
        => (run.pc = "finish" /\ attempted = AllPages)

\* No page whose checkpoint was saved is fetched again.
NoSavedPageRefetched == run.pc = "page" => <<run.table, run.page>> \notin saved

\* No page is passed over before it was attempted.
NoPageSkipped ==
    /\ run.pc = "page" =>
          \A pg \in AllPages : Before(pg, <<run.table, run.page>>) => pg \in attempted
    /\ run.pc \in {"finish", "done"} => attempted = AllPages

\* C26: a checkpoint written after page p of table t records the products so
\* far and the position (t, p+1); a run restarted after an interruption at
\* any point resumes at the recorded position with every product of the
\* checkpoint, fetches no page again whose checkpoint was saved and skips no
\* page not yet attempted; the checkpoint file is removed only after both
\* tables were iterated in full.
C26_CheckpointResume ==
    /\ [](NoSavedPageRefetched /\ NoPageSkipped)
    /\ [][CheckpointRecordsPosition /\ ResumeKeepsCheckpoint /\ RemovedAfterBothTables]_vars

====
